---- MODULE Spec2Model ----
(***************************************************************************)
(* Model of src/js/Aurora.js: the Aurora class (WebGL aurora renderer with *)
(* a Canvas 2D fallback).  JavaScript is single threaded and every handler *)
(* runs to completion, so each handler (timer callback, frame callback,    *)
(* resize listener) is one action.  Methods of the class are operators     *)
(* from a machine state record to a machine state record, composed the way *)
(* the code calls them.                                                    *)
(*                                                                         *)
(* Numbers: lengths are CSS or physical pixels (integers).  The device     *)
(* pixel ratio is a rational <<num, den>>.  blend, amplitude and speed are *)
(* in hundredths.  Colour channels are numerators over 255.                *)
(***************************************************************************)
EXTENDS Integers, Sequences, FiniteSets, TLC

VARIABLES
    container,   \* host container element: offsetWidth, offsetHeight, clientWidth, clientHeight
    window,      \* host window: innerWidth, innerHeight, devicePixelRatio
    host,        \* what the platform offers: context ids, compile and link outcomes
    options,     \* the options argument the constructor was called with
    now,         \* performance.now(), in clock units
    this,        \* fields of the Aurora instance
    gpu,         \* state held by the GPU context: viewport, uniforms, live handles
    ctx2d,       \* what fallbackToCanvas2D captured: 2D context and gradient
    timers,      \* callbacks scheduled and not yet run (setTimeout, requestAnimationFrame)
    phase,       \* pipeline state of spec section 4.4 (history variable)
    handler,     \* name of the handler that ran last
    calls,       \* host API calls and method calls issued by the handler that ran last
    fragment     \* the last fragment shader invocation of a draw: <<>> or <<record>>

vars == <<container, window, host, options, now, this, gpu, ctx2d, timers, phase, handler, calls,
          fragment>>

(***************************************************************************)
(* Bounds and program constants.                                           *)
(***************************************************************************)
MaxNow == 1                  \* the clock stops advancing here
MaxHexLen == 7               \* longest colour descriptor body of the colour inputs
RampGrid == 8                \* ramp factors are the multiples of 1/RampGrid

MinFallbackWidth == 1200     \* Math.max(window.innerWidth, 1200)
MinFallbackHeight == 500     \* Math.max(500, window.innerHeight * 0.6)
FallbackHeightRatio == <<6, 10>>   \* 0.6
DrawVertexCount == 3         \* gl.drawArrays(gl.TRIANGLES, 0, 3)

Undefined == "undefined"
Null == "null"
NoTime == -1                 \* startTime before it is assigned
NaN == -1000000              \* the NaN that parseInt / division produce

(***************************************************************************)
(* Strings are sequences of one-character strings.                         *)
(***************************************************************************)
DefaultColorStops ==
    << <<"#","3","A","2","9","F","F">>,
       <<"#","F","F","9","4","B","4">>,
       <<"#","F","F","3","2","3","2">> >>

PageColorStops ==
    << <<"#","0","0","A","A","F","F">>,
       <<"#","F","F","3","2","3","2">>,
       <<"#","7","C","F","F","6","7">> >>

\* caller options of the page-load glue: new Aurora(container, {...})
PageOptions ==
    [colorStops |-> <<PageColorStops>>, blend |-> <<70>>,
     amplitude |-> <<150>>, speed |-> <<65>>]

(***************************************************************************)
(* Inputs.  A property of the options object is <<>> when the caller did   *)
(* not supply it and <<v>> when it did.                                    *)
(***************************************************************************)
OptionInputs ==
    [colorStops : {<<>>, <<PageColorStops>>},
     blend      : {<<>>, <<70>>, <<100>>},
     amplitude  : {<<>>, <<0>>, <<150>>},
     speed      : {<<>>, <<0>>, <<65>>}]

\* colour descriptors a caller can pass: an optional '#', then up to
\* MaxHexLen characters, hexadecimal digits of both cases and decimal and
\* a character that is no hexadecimal digit
HexAlphabet == {"0", "b", "F", "g"}
ColorBodies == UNION {[1..n -> HexAlphabet] : n \in 0..MaxHexLen}
ColorStrings == ColorBodies \cup {<<"#">> \o b : b \in ColorBodies}

\* ramp factors uv.x, in units of 1/RampGrid: [0,1] and one step outside
RampFactors == (0 - 1)..(RampGrid + 1)

\* colorStops options of the shader inputs: absent, the page's, short forms
RampStopInputs ==
    {<<>>, <<PageColorStops>>,
     << << <<"#","0","0","0">>, <<"#","f","f","f">>, <<"#","0","0","0">> >> >>,
     << << <<"F","F","0">>, <<"0","8","0">>, <<"1","0","F","F","E","0">> >> >>}

ContainerSizes == {<<0, 0>>, <<1, 1>>, <<800, 600>>}
WindowSizes == {<<0, 0>>, <<1000, 800>>, <<1400, 0>>, <<0, 1000>>}
PixelRatios == {<<1, 2>>, <<2, 1>>}

\* clientWidth/clientHeight exclude borders: never more than the offset size
Containers ==
    {[offsetWidth |-> s[1], offsetHeight |-> s[2],
      clientWidth |-> s[1], clientHeight |-> s[2]] : s \in ContainerSizes}

Windows ==
    {[innerWidth |-> s[1], innerHeight |-> s[2], devicePixelRatio |-> r] :
        s \in WindowSizes, r \in PixelRatios}

\* context ids the platform supports, whether getContext throws, and the
\* outcome of compiling each stage and of linking.  The outcomes of the
\* stages do not depend on the API version in the code, so the failing
\* outcomes are enumerated for one of them.
Hosts ==
    {[supports |-> {}, getContextThrows |-> t, vertexCompiles |-> TRUE,
      fragmentCompiles |-> TRUE, links |-> TRUE] : t \in BOOLEAN}
    \cup
    {[supports |-> {"webgl2", "webgl", "experimental-webgl"}, getContextThrows |-> FALSE,
      vertexCompiles |-> o[1], fragmentCompiles |-> o[2], links |-> o[3]] :
        o \in {<<TRUE, TRUE, TRUE>>, <<FALSE, TRUE, TRUE>>, <<TRUE, FALSE, TRUE>>,
               <<FALSE, FALSE, TRUE>>, <<TRUE, TRUE, FALSE>>}}
    \cup
    {[supports |-> {"webgl", "experimental-webgl"}, getContextThrows |-> FALSE,
      vertexCompiles |-> TRUE, fragmentCompiles |-> TRUE, links |-> TRUE]}

(***************************************************************************)
(* JavaScript helpers.                                                     *)
(***************************************************************************)
Max(a, b) == IF a >= b THEN a ELSE b

\* a || b on numbers: 0 is falsy
OrNum(a, b) == IF a # 0 THEN a ELSE b

\* options.x || d : an absent property (undefined) and 0 are falsy
OrDefault(opt, d) == IF opt = <<>> THEN d ELSE IF opt[1] = 0 THEN d ELSE opt[1]

\* options.colorStops || d : an array is truthy
OrDefaultArray(opt, d) == IF opt = <<>> THEN d ELSE opt[1]

\* window.devicePixelRatio || 1
PixelRatio(w) == IF w.devicePixelRatio[1] = 0 THEN <<1, 1>> ELSE w.devicePixelRatio

\* assignment of the number x * r to canvas.width / canvas.height: the
\* attribute is an unsigned long, the fraction is dropped (x, r >= 0)
ToUnsignedLong(x, r) == (x * r[1]) \div r[2]

Call(by, op, args) == [by |-> by, op |-> op, args |-> args]

(***************************************************************************)
(* The machine state the methods transform: the instance fields, the GPU   *)
(* state, the 2D fallback closure, the scheduled callbacks, the pipeline   *)
(* phase and the calls issued so far by the running handler.               *)
(***************************************************************************)
Machine == [this |-> this, gpu |-> gpu, ctx2d |-> ctx2d, timers |-> timers,
            phase |-> phase, calls |-> <<>>]

Log(st, by, op, args) == [st EXCEPT !.calls = Append(@, Call(by, op, args))]

\* F applied to the value of x: sequencing of two steps, the state reached
\* by the first is computed once and handed to the second
With(x, F(_)) == CHOOSE r \in {F(y) : y \in {x}} : TRUE

HasGL(st) == st.this.gl \notin {Undefined, Null}

\* containerWidth without the window as the last resort
ContainerWidthNoWindow == OrNum(container.offsetWidth, container.clientWidth)

\* containerWidth / containerHeight of resizeCanvas
ContainerWidth == OrNum(container.offsetWidth, OrNum(container.clientWidth, window.innerWidth))
ContainerHeight == OrNum(container.offsetHeight, OrNum(container.clientHeight, window.innerHeight))

\* the physical size resizeCanvas assigns to canvas.width and canvas.height
MeasuredWidth ==
    IF ContainerWidth > 0 /\ ContainerHeight > 0
    THEN ToUnsignedLong(ContainerWidth, PixelRatio(window))
    ELSE ToUnsignedLong(Max(window.innerWidth, MinFallbackWidth), PixelRatio(window))

MeasuredHeight ==
    IF ContainerWidth > 0 /\ ContainerHeight > 0
    THEN ToUnsignedLong(ContainerHeight, PixelRatio(window))
    ELSE LET r == PixelRatio(window)
             \* max(500, innerHeight * 0.6) * r, over the common denominator
             m == Max(MinFallbackHeight * FallbackHeightRatio[2],
                      window.innerHeight * FallbackHeightRatio[1])
         IN  ToUnsignedLong(m, <<r[1], r[2] * FallbackHeightRatio[2]>>)

\* GPU side of resizeCanvas: viewport when the context exists, resolution
\* uniform when the program and its location exist
resizeCanvasGPU(st) ==
    IF ~HasGL(st) THEN st
    ELSE LET w == st.this.canvas.width
             h == st.this.canvas.height
             s1 == Log([st EXCEPT !.gpu.viewport = <<w, h>>],
                       "resizeCanvas", "gl.viewport", <<0, 0, w, h>>)
         IN  IF st.this.program # Undefined /\ st.this.resolutionLocation # Undefined
             THEN Log(Log([s1 EXCEPT !.gpu.uResolution = <<w, h>>],
                          "resizeCanvas", "gl.useProgram", <<>>),
                      "resizeCanvas", "gl.uniform2f:uResolution", <<w, h>>)
             ELSE s1

resizeCanvas(st) ==
    IF ContainerWidth > 0 /\ ContainerHeight > 0
    THEN With([st EXCEPT !.this.canvas =
                [width |-> MeasuredWidth, height |-> MeasuredHeight,
                 styleWidth |-> [value |-> ContainerWidth, unit |-> "px"],
                 styleHeight |-> [value |-> ContainerHeight, unit |-> "px"]]],
              resizeCanvasGPU)
    ELSE [st EXCEPT !.this.canvas.width = MeasuredWidth,
                    !.this.canvas.height = MeasuredHeight]

(***************************************************************************)
(* fallbackToCanvas2D.  Host canvas rule: a canvas that has handed out a   *)
(* GPU context returns null from getContext('2d').                         *)
(***************************************************************************)
GetContext2D(st) == IF HasGL(st) THEN Null ELSE "CanvasRenderingContext2D"

\* gradient.addColorStop(index / (length - 1), color) for every stop
GradientStops(colorStops) ==
    [i \in 1..Len(colorStops) |->
        [offset |-> <<i - 1, Len(colorStops) - 1>>, color |-> colorStops[i]]]

\* the animate closure of fallbackToCanvas2D
fallbackAnimate(st0) ==
    With(st0, LAMBDA st :
        LET w == st.this.canvas.width
            h == st.this.canvas.height
            g == st.ctx2d.gradient
            s1 == Log(st, "fallbackAnimate", "ctx.clearRect", <<0, 0, w, h>>)
            s2 == Log(s1, "fallbackAnimate", "ctx.fillStyle=gradient",
                      <<g.x0, g.y0, g.x1, g.y1>>)
            s3 == Log(s2, "fallbackAnimate", "ctx.fillRect", <<0, 0, w, h>>)
            s4 == Log(s3, "fallbackAnimate", "requestAnimationFrame", <<>>)
        IN  [s4 EXCEPT !.timers.fallbackAnimate = @ + 1])

fallbackToCanvas2D(st0, by) ==
    With(Log([st0 EXCEPT !.phase = "Degraded"], by, "fallbackToCanvas2D", <<>>),
         LAMBDA st :
            IF GetContext2D(st) = Null THEN [st EXCEPT !.ctx2d.ctx = Null]
            ELSE fallbackAnimate(
                    Log([st EXCEPT !.ctx2d =
                            [ctx |-> GetContext2D(st),
                             gradient |-> [x0 |-> 0, y0 |-> 0,
                                           x1 |-> st.this.canvas.width, y1 |-> 0,
                                           stops |-> GradientStops(st.this.options.colorStops)]]],
                        "fallbackToCanvas2D", "fallbackAnimate", <<>>)))

(***************************************************************************)
(* hexToRgb.  A channel is the numerator of value/255, or NaN.             *)
(***************************************************************************)
HexDigit(c) ==
    CASE c = "0" -> 0 [] c = "1" -> 1 [] c = "2" -> 2 [] c = "3" -> 3
      [] c = "4" -> 4 [] c = "5" -> 5 [] c = "6" -> 6 [] c = "7" -> 7
      [] c = "8" -> 8 [] c = "9" -> 9
      [] c \in {"a", "A"} -> 10 [] c \in {"b", "B"} -> 11
      [] c \in {"c", "C"} -> 12 [] c \in {"d", "D"} -> 13
      [] c \in {"e", "E"} -> 14 [] c \in {"f", "F"} -> 15
      [] OTHER -> -1

RECURSIVE ParseDigits(_, _, _)
\* value of the longest prefix of hexadecimal digits of s from position i,
\* acc the value read so far and NaN when no digit has been read
ParseDigits(s, i, acc) ==
    IF i > Len(s) THEN acc
    ELSE IF HexDigit(s[i]) < 0 THEN acc
    ELSE With((IF acc = NaN THEN 0 ELSE acc) * 16 + HexDigit(s[i]),
              LAMBDA next : ParseDigits(s, i + 1, next))

\* parseInt(s, 16): optional sign, optional 0x prefix, then the longest
\* prefix of hexadecimal digits; NaN when there is none
parseInt16(s0) ==
    With(s0, LAMBDA s :
        LET neg == Len(s) > 0 /\ s[1] = "-"
            t == IF Len(s) > 0 /\ s[1] \in {"+", "-"} THEN Tail(s) ELSE s
            u == IF Len(t) >= 2 /\ t[1] = "0" /\ t[2] \in {"x", "X"}
                 THEN Tail(Tail(t)) ELSE t
        IN  With(ParseDigits(u, 1, NaN), LAMBDA v :
                IF v = NaN THEN NaN ELSE IF neg THEN 0 - v ELSE v))

\* hex.substring(a, b) with 0 <= a <= b
Substring(s, a, b) ==
    LET lo == IF a > Len(s) THEN Len(s) ELSE a
        hi == IF b > Len(s) THEN Len(s) ELSE b
    IN  SubSeq(s, lo + 1, hi)

\* hex.charAt(i): the empty string past the end
CharAt(s, i) == IF i + 1 <= Len(s) THEN <<s[i + 1]>> ELSE <<>>

\* hex.replace(/^#/, '')
StripHash(hex) == IF Len(hex) > 0 /\ hex[1] = "#" THEN Tail(hex) ELSE hex

\* hexToRgb reading each digit of the short form once
hexToRgbNoDuplicate(hex0) ==
    With(StripHash(hex0), LAMBDA hex :
        IF Len(hex) = 3
        THEN << parseInt16(CharAt(hex, 0)),
                parseInt16(CharAt(hex, 1)),
                parseInt16(CharAt(hex, 2)) >>
        ELSE << parseInt16(Substring(hex, 0, 2)),
                parseInt16(Substring(hex, 2, 4)),
                parseInt16(Substring(hex, 4, 6)) >>)

hexToRgb(hex0) ==
    With(StripHash(hex0), LAMBDA hex :
        IF Len(hex) = 3
        THEN << parseInt16(CharAt(hex, 0) \o CharAt(hex, 0)),
                parseInt16(CharAt(hex, 1) \o CharAt(hex, 1)),
                parseInt16(CharAt(hex, 2) \o CharAt(hex, 2)) >>
        ELSE << parseInt16(Substring(hex, 0, 2)),
                parseInt16(Substring(hex, 2, 4)),
                parseInt16(Substring(hex, 4, 6)) >>)

(***************************************************************************)
(* animate: one GPU tick.                                                  *)
(***************************************************************************)
RECURSIVE Flat(_)
Flat(a) == IF a = <<>> THEN <<>> ELSE Head(a) \o Flat(Tail(a))

\* animate with the draw call issued before the uniforms are written
animateDrawFirst(st0, by) ==
    With(resizeCanvas(Log(Log([st0 EXCEPT !.phase = "Running"], by, "animate", <<>>),
                          "animate", "resizeCanvas", <<>>)),
         LAMBDA st :
            LET w == st.this.canvas.width
                h == st.this.canvas.height
                s2 == Log([st EXCEPT !.gpu.viewport = <<w, h>>],
                          "animate", "gl.viewport", <<0, 0, w, h>>)
                s3 == Log(s2, "animate", "gl.drawArrays", <<0, DrawVertexCount>>)
                s4 == Log(s3, "animate", "gl.uniform1f:uTime",
                          <<(now - st.this.startTime) * st.this.options.speed>>)
                s5 == Log(s4, "animate", "gl.uniform1f:uAmplitude",
                          <<st.this.options.amplitude>>)
                s6 == Log([s5 EXCEPT !.gpu.uResolution = <<w, h>>],
                          "animate", "gl.uniform2f:uResolution", <<w, h>>)
                s7 == Log(s6, "animate", "gl.uniform1f:uBlend", <<st.this.options.blend>>)
                s8 == Log(s7, "animate", "gl.uniform3fv:uColorStops",
                          Flat(st.this.colorStopsArray))
                s9 == Log(s8, "animate", "requestAnimationFrame", <<>>)
            IN  [s9 EXCEPT !.timers.animate = @ + 1])

\* animate taking a new startTime at every tick
animateRestartsClock(st0, by) ==
    With(resizeCanvas(Log(Log([st0 EXCEPT !.phase = "Running", !.this.startTime = now],
                              by, "animate", <<>>),
                          "animate", "resizeCanvas", <<>>)),
         LAMBDA st :
            LET w == st.this.canvas.width
                h == st.this.canvas.height
                s2 == Log([st EXCEPT !.gpu.viewport = <<w, h>>],
                          "animate", "gl.viewport", <<0, 0, w, h>>)
                s3 == Log(s2, "animate", "gl.uniform1f:uTime",
                          <<(now - st.this.startTime) * st.this.options.speed>>)
                s4 == Log(s3, "animate", "gl.uniform1f:uAmplitude",
                          <<st.this.options.amplitude>>)
                s5 == Log([s4 EXCEPT !.gpu.uResolution = <<w, h>>],
                          "animate", "gl.uniform2f:uResolution", <<w, h>>)
                s6 == Log(s5, "animate", "gl.uniform1f:uBlend", <<st.this.options.blend>>)
                s7 == Log(s6, "animate", "gl.uniform3fv:uColorStops",
                          Flat(st.this.colorStopsArray))
                s8 == Log(s7, "animate", "gl.drawArrays", <<0, DrawVertexCount>>)
                s9 == Log(s8, "animate", "requestAnimationFrame", <<>>)
            IN  [s9 EXCEPT !.timers.animate = @ + 1])

\* animate leaving the viewport and the resolution to resizeCanvas
animateTrustsResize(st0, by) ==
    With(resizeCanvas(Log(Log([st0 EXCEPT !.phase = "Running"], by, "animate", <<>>),
                          "animate", "resizeCanvas", <<>>)),
         LAMBDA st :
            LET s3 == Log(st, "animate", "gl.uniform1f:uTime",
                          <<(now - st.this.startTime) * st.this.options.speed>>)
                s4 == Log(s3, "animate", "gl.uniform1f:uAmplitude",
                          <<st.this.options.amplitude>>)
                s6 == Log(s4, "animate", "gl.uniform1f:uBlend", <<st.this.options.blend>>)
                s7 == Log(s6, "animate", "gl.uniform3fv:uColorStops",
                          Flat(st.this.colorStopsArray))
                s8 == Log(s7, "animate", "gl.drawArrays", <<0, DrawVertexCount>>)
                s9 == Log(s8, "animate", "requestAnimationFrame", <<>>)
            IN  [s9 EXCEPT !.timers.animate = @ + 1])

animate(st0, by) ==
    With(resizeCanvas(Log(Log([st0 EXCEPT !.phase = "Running"], by, "animate", <<>>),
                          "animate", "resizeCanvas", <<>>)),
         LAMBDA st :
            LET w == st.this.canvas.width
                h == st.this.canvas.height
                s2 == Log([st EXCEPT !.gpu.viewport = <<w, h>>],
                          "animate", "gl.viewport", <<0, 0, w, h>>)
                \* time * speed, in clock units times hundredths
                s3 == Log(s2, "animate", "gl.uniform1f:uTime",
                          <<(now - st.this.startTime) * st.this.options.speed>>)
                s4 == Log(s3, "animate", "gl.uniform1f:uAmplitude",
                          <<st.this.options.amplitude>>)
                s5 == Log([s4 EXCEPT !.gpu.uResolution = <<w, h>>],
                          "animate", "gl.uniform2f:uResolution", <<w, h>>)
                s6 == Log(s5, "animate", "gl.uniform1f:uBlend", <<st.this.options.blend>>)
                s7 == Log(s6, "animate", "gl.uniform3fv:uColorStops",
                          Flat(st.this.colorStopsArray))
                s8 == Log(s7, "animate", "gl.drawArrays", <<0, DrawVertexCount>>)
                s9 == Log(s8, "animate", "requestAnimationFrame", <<>>)
            IN  [s9 EXCEPT !.timers.animate = @ + 1])

(***************************************************************************)
(* The colour ramp of the fragment shader.  A float is a rational          *)
(* <<num, den>> with den > 0; a colour is three channel numerators over    *)
(* 255, a ramp colour three rationals over 255.                            *)
(***************************************************************************)
RatLeq(a, b) == a[1] * b[2] <= b[1] * a[2]
RatSub(a, b) == <<a[1] * b[2] - b[1] * a[2], a[2] * b[2]>>
\* a / b for b > 0
RatDiv(a, b) == <<a[1] * b[2], a[2] * b[1]>>

\* mix(x, y, a) = x * (1 - a) + y * a
Mix(x, y, a) == <<x * (a[2] - a[1]) + y * a[1], a[2]>>
MixVec3(x, y, a) == <<Mix(x[1], y[1], a), Mix(x[2], y[2], a), Mix(x[3], y[3], a)>>

\* float(b) of a bool, int(f) of a float that is not negative
FloatOfBool(b) == IF b THEN <<1, 1>> ELSE <<0, 1>>
IntOfFloat(f) == f[1] \div f[2]

\* main(): colors[0..2] = ColorStop(uColorStops[i], 0.0 / 0.5 / 1.0);
\* colors[i] of the shader is RampColors(u)[i + 1]
RampColors(uColorStops) ==
    << [color |-> uColorStops[1], position |-> <<0, 2>>],
       [color |-> uColorStops[2], position |-> <<1, 2>>],
       [color |-> uColorStops[3], position |-> <<2, 2>>] >>

\* one iteration of the loop of the COLOR_RAMP macro
MacroLoopBody(colors, factor, index, i) ==
    LET currentColor == colors[i + 1]
        isInBetween == RatLeq(currentColor.position, factor)
    IN  IntOfFloat(Mix(index, i, FloatOfBool(isInBetween)))

\* the COLOR_RAMP macro whose loop keeps the first matching stop
COLOR_RAMP_FirstMatch(colors, factor) ==
    LET index == IF RatLeq(colors[1].position, factor) THEN 0 ELSE 1
        currentColor == colors[index + 1]
        nextColor == colors[index + 2]
        range == RatSub(nextColor.position, currentColor.position)
        lerpFactor == RatDiv(RatSub(factor, currentColor.position), range)
    IN  [index |-> index, currentColor |-> currentColor, nextColor |-> nextColor,
         lerpFactor |-> lerpFactor,
         finalColor |-> MixVec3(currentColor.color, nextColor.color, lerpFactor)]

\* #define COLOR_RAMP(colors, factor, finalColor) of the WebGL2 shader
COLOR_RAMP(colors, factor) ==
    LET index == MacroLoopBody(colors, factor, MacroLoopBody(colors, factor, 0, 0), 1)
        currentColor == colors[index + 1]
        nextColor == colors[index + 2]
        range == RatSub(nextColor.position, currentColor.position)
        lerpFactor == RatDiv(RatSub(factor, currentColor.position), range)
    IN  [index |-> index, currentColor |-> currentColor, nextColor |-> nextColor,
         lerpFactor |-> lerpFactor,
         finalColor |-> MixVec3(currentColor.color, nextColor.color, lerpFactor)]

\* one iteration of the loop of colorRamp
FunctionLoopBody(colors, factor, index, i) ==
    LET currentColor == colors[i + 1]
    IN  IF RatLeq(currentColor.position, factor) THEN i ELSE index

\* colorRamp whose loop also visits the last stop (i < 3)
colorRampThreeStops(colors, factor) ==
    LET index == FunctionLoopBody(colors, factor,
                    FunctionLoopBody(colors, factor,
                        FunctionLoopBody(colors, factor, 0, 0), 1), 2)
        currentColor == colors[index + 1]
        nextColor == colors[IF index + 2 <= 3 THEN index + 2 ELSE 3]
        range == RatSub(nextColor.position, currentColor.position)
        lerpFactor == IF range[1] = 0 THEN <<0, 1>>
                      ELSE RatDiv(RatSub(factor, currentColor.position), range)
    IN  [index |-> index, currentColor |-> currentColor, nextColor |-> nextColor,
         lerpFactor |-> lerpFactor,
         finalColor |-> MixVec3(currentColor.color, nextColor.color, lerpFactor)]

\* vec3 colorRamp(ColorStop colors[3], float factor) of the WebGL1 shader
colorRamp(colors, factor) ==
    LET index == FunctionLoopBody(colors, factor, FunctionLoopBody(colors, factor, 0, 0), 1)
        currentColor == colors[index + 1]
        nextColor == colors[index + 2]
        range == RatSub(nextColor.position, currentColor.position)
        lerpFactor == RatDiv(RatSub(factor, currentColor.position), range)
    IN  [index |-> index, currentColor |-> currentColor, nextColor |-> nextColor,
         lerpFactor |-> lerpFactor,
         finalColor |-> MixVec3(currentColor.color, nextColor.color, lerpFactor)]

\* fragmentShaderSource: the variant is chosen by the type of the context
ShaderVariant == IF this.gl = "WebGL2RenderingContext" THEN "300 es" ELSE "100"

\* the ramp part of main() for a fragment whose uv.x is factor
FragmentRamp(factor) ==
    LET colors == RampColors(this.colorStopsArray)
        ramp == IF ShaderVariant = "300 es" THEN COLOR_RAMP(colors, factor)
                ELSE colorRamp(colors, factor)
    IN  [variant |-> ShaderVariant, factor |-> factor, uColorStops |-> this.colorStopsArray,
         index |-> ramp.index, currentColor |-> ramp.currentColor,
         nextColor |-> ramp.nextColor, lerpFactor |-> ramp.lerpFactor,
         rampColor |-> ramp.finalColor]

(***************************************************************************)
(* initWebGL.                                                              *)
(***************************************************************************)
\* canvas.getContext('webgl2') || getContext('webgl') || getContext('experimental-webgl')
GetContextGL ==
    IF "webgl2" \in host.supports THEN "WebGL2RenderingContext"
    ELSE IF "webgl" \in host.supports THEN "WebGLRenderingContext"
    ELSE IF "experimental-webgl" \in host.supports THEN "WebGLRenderingContext"
    ELSE Null

\* compileShader(source, type): the handle stays allocated when the stage
\* compiles and is deleted when it does not
compileShader(st, type, compiles) ==
    LET s1 == Log(Log(Log(st, "compileShader", "gl.createShader", <<>>),
                      "compileShader", "gl.shaderSource", <<>>),
                  "compileShader", "gl.compileShader", <<>>)
    IN  IF compiles
        THEN [s1 EXCEPT !.gpu.shaders = @ \cup {type}]
        ELSE Log(s1, "compileShader", "gl.deleteShader", <<>>)

\* lines 84-126: program, geometry, locations, colour table, clock, first tick
initProgram(st0) ==
    With(st0, LAMBDA st :
        LET s1 == Log(Log(Log(Log([st EXCEPT !.this.program = "WebGLProgram",
                                             !.gpu.programs = @ + 1,
                                             !.gpu.linked = host.links],
                                      "initWebGL", "gl.createProgram", <<>>),
                                  "initWebGL", "gl.attachShader", <<>>),
                              "initWebGL", "gl.attachShader", <<>>),
                          "initWebGL", "gl.linkProgram", <<>>)
        IN  IF ~host.links THEN fallbackToCanvas2D(s1, "initWebGL")
            ELSE animate(
                    [Log(Log([s1 EXCEPT !.gpu.buffers = @ + 1],
                             "initWebGL", "gl.useProgram", <<>>),
                         "initWebGL", "gl.createBuffer", <<>>)
                     EXCEPT
                        !.this.timeLocation = "WebGLUniformLocation",
                        !.this.amplitudeLocation = "WebGLUniformLocation",
                        !.this.colorStopsLocation = "WebGLUniformLocation",
                        !.this.resolutionLocation = "WebGLUniformLocation",
                        !.this.blendLocation = "WebGLUniformLocation",
                        !.this.colorStopsArray =
                            [i \in 1..Len(st.this.options.colorStops) |->
                                hexToRgb(st.this.options.colorStops[i])],
                        !.this.startTime = now],
                    "initWebGL"))

\* lines 70-82: GL setup and the two stages, then the program
initStages(st) ==
    LET s1 == Log(Log(Log(st, "initWebGL", "gl.clearColor", <<0, 0, 0, 0>>),
                      "initWebGL", "gl.enable", <<>>),
                  "initWebGL", "gl.blendFunc", <<>>)
        s2 == compileShader(Log(s1, "initWebGL", "compileShader", <<>>),
                            "VERTEX_SHADER", host.vertexCompiles)
        s3 == compileShader(Log(s2, "initWebGL", "compileShader", <<>>),
                            "FRAGMENT_SHADER", host.fragmentCompiles)
    IN  IF ~host.vertexCompiles \/ ~host.fragmentCompiles
        THEN fallbackToCanvas2D(s3, "initWebGL")
        ELSE initProgram(s3)

\* the retry of lines 61-66: setTimeout(() => this.initWebGL(), 300)
scheduleRetry(st) ==
    [Log(st, "initWebGL", "setTimeout:initWebGL", <<300>>)
        EXCEPT !.timers.initWebGL = @ + 1]

\* initShaders treating a zero-sized canvas as a permanent failure
initShadersNoRetry(st0) ==
    With(st0, LAMBDA st :
        IF st.this.canvas.width = 0 \/ st.this.canvas.height = 0
        THEN fallbackToCanvas2D(st, "initWebGL")
        ELSE initStages(st))

\* initShaders without the return after scheduling the retry
initShadersNoReturn(st0) ==
    With(st0, LAMBDA st :
        IF st.this.canvas.width = 0 \/ st.this.canvas.height = 0
        THEN initStages(scheduleRetry(st))
        ELSE initStages(st))

\* lines 61-127: what initWebGL does once it holds a context
initShaders(st0) ==
    With(st0, LAMBDA st :
        IF st.this.canvas.width = 0 \/ st.this.canvas.height = 0
        THEN scheduleRetry(st)
        ELSE initStages(st))

initWebGL(st0) ==
    With(resizeCanvas(Log([st0 EXCEPT !.phase = "Initializing"],
                          "initWebGL", "resizeCanvas", <<>>)),
         LAMBDA st :
            IF host.getContextThrows THEN fallbackToCanvas2D(st, "initWebGL")
            ELSE IF GetContextGL = Null
            THEN fallbackToCanvas2D([st EXCEPT !.this.gl = Null], "initWebGL")
            ELSE initShaders(
                    \* a new context starts with the viewport of the canvas
                    IF HasGL(st) THEN st
                    ELSE [st EXCEPT !.this.gl = GetContextGL,
                                    !.gpu.viewport = <<st.this.canvas.width,
                                                       st.this.canvas.height>>]))

(***************************************************************************)
(* constructor.                                                            *)
(***************************************************************************)
constructor(opts) ==
    LET st == [this |-> [options |->
                            [colorStops |-> OrDefaultArray(opts.colorStops, DefaultColorStops),
                             blend |-> OrDefault(opts.blend, 50),
                             amplitude |-> OrDefault(opts.amplitude, 100),
                             speed |-> OrDefault(opts.speed, 50)],
                         canvas |-> [width |-> 300, height |-> 150,
                                     styleWidth |-> [value |-> 100, unit |-> "%"],
                                     styleHeight |-> [value |-> 100, unit |-> "%"]],
                         gl |-> Undefined, program |-> Undefined,
                         timeLocation |-> Undefined, amplitudeLocation |-> Undefined,
                         colorStopsLocation |-> Undefined,
                         resolutionLocation |-> Undefined, blendLocation |-> Undefined,
                         colorStopsArray |-> <<>>, startTime |-> NoTime],
               gpu |-> [viewport |-> <<0, 0>>, uResolution |-> <<0, 0>>,
                        shaders |-> {}, programs |-> 0, buffers |-> 0, linked |-> FALSE],
               ctx2d |-> [ctx |-> Undefined,
                          gradient |-> [x0 |-> 0, y0 |-> 0, x1 |-> 0, y1 |-> 0, stops |-> <<>>]],
               timers |-> [initWebGL |-> 0, animate |-> 0, fallbackAnimate |-> 0],
               phase |-> "Uninitialized",
               calls |-> <<>>]
        s1 == resizeCanvas(Log(st, "constructor", "resizeCanvas", <<>>))
        s2 == Log(s1, "constructor", "window.addEventListener:resize", <<>>)
    IN  [Log(s2, "constructor", "setTimeout:initWebGL", <<500>>)
            EXCEPT !.timers.initWebGL = @ + 1]

(***************************************************************************)
(* Specification.                                                          *)
(***************************************************************************)
Commit(st, name) ==
    /\ this' = st.this
    /\ gpu' = st.gpu
    /\ ctx2d' = st.ctx2d
    /\ timers' = st.timers
    /\ phase' = st.phase
    /\ calls' = st.calls
    /\ handler' = name
    /\ UNCHANGED <<container, window, host, options, now, fragment>>

Construct ==
    \E st \in {constructor(options)} :
        /\ this = st.this
        /\ gpu = st.gpu
        /\ ctx2d = st.ctx2d
        /\ timers = st.timers
        /\ phase = st.phase
        /\ calls = st.calls
        /\ handler = "constructor"
        /\ fragment = <<>>

\* the page as loaded: any layout, any platform, the options of the page glue
Init ==
    /\ container \in Containers
    /\ window \in Windows
    /\ host \in Hosts
    /\ options = PageOptions
    /\ now = 0
    /\ Construct

\* the setTimeout callback: () => this.initWebGL()
InitTimer ==
    /\ timers.initWebGL > 0
    /\ \E st \in {initWebGL([Machine EXCEPT !.timers.initWebGL = @ - 1])} :
          Commit(st, "initWebGL")

\* the requestAnimationFrame callback: () => this.animate()
AnimationFrame ==
    /\ timers.animate > 0
    /\ \E st \in {animate([Machine EXCEPT !.timers.animate = @ - 1],
                             "requestAnimationFrame")} :
          Commit(st, "animate")

\* the requestAnimationFrame callback of the fallback: animate
FallbackFrame ==
    /\ timers.fallbackAnimate > 0
    /\ \E st \in {fallbackAnimate([Machine EXCEPT !.timers.fallbackAnimate = @ - 1])} :
          Commit(st, "fallbackAnimate")

\* a resize listener that also renders a frame
ResizeNotificationRedraws ==
    \E st \in {animate(Log(Machine, "resize listener", "resizeCanvas", <<>>),
                       "resize listener")} :
        Commit(st, "resize")

\* the window resize listener: () => { this.resizeCanvas(); }
ResizeNotification ==
    \E st \in {resizeCanvas(Log(Machine, "resize listener", "resizeCanvas", <<>>))} :
        Commit(st, "resize")

\* the host lays the page out again, the window is resized or zoomed
LayoutChange ==
    /\ \E c \in Containers, w \in Windows :
          /\ <<c, w>> # <<container, window>>
          /\ container' = c
          /\ window' = w
    /\ UNCHANGED <<host, options, now, this, gpu, ctx2d, timers, phase, handler, calls,
                   fragment>>

\* time passes
Elapse ==
    /\ now < MaxNow
    /\ now' = now + 1
    /\ UNCHANGED <<container, window, host, options, this, gpu, ctx2d, timers, phase, handler,
                   calls, fragment>>

Next ==
    \/ InitTimer
    \/ AnimationFrame
    \/ FallbackFrame
    \/ ResizeNotification
    \/ LayoutChange
    \/ Elapse

Spec == Init /\ [][Next]_vars

\* the same program with every caller configuration of the documented
\* domains, on a page whose layout does not change
InitConfig ==
    /\ container \in Containers
    /\ window \in {w \in Windows : w.innerWidth = 1000}
    /\ host \in Hosts
    /\ options \in OptionInputs
    /\ now = 0
    /\ Construct

NextStatic ==
    \/ InitTimer
    \/ AnimationFrame
    \/ FallbackFrame
    \/ ResizeNotification
    \/ Elapse

ConfigSpec == InitConfig /\ [][NextStatic]_vars

\* the same program on a platform that renders, with every colour
\* descriptor of the inputs as the first colour stop: initWebGL converts the
\* stops with hexToRgb and every tick uploads the result
InitColor ==
    /\ container \in {c \in Containers : c.offsetWidth = 800}
    /\ window \in {w \in Windows : w.innerWidth = 1000 /\ w.devicePixelRatio = <<2, 1>>}
    /\ host \in {h \in Hosts : "webgl2" \in h.supports /\ h.vertexCompiles
                                /\ h.fragmentCompiles /\ h.links}
    /\ options \in {[PageOptions EXCEPT !.colorStops =
                        << <<s, PageColorStops[2], PageColorStops[3]>> >>] :
                     s \in ColorStrings}
    /\ now = 0
    /\ Construct

NextColor ==
    \/ InitTimer
    \/ AnimationFrame

ColorSpec == InitColor /\ [][NextColor]_vars

\* the GPU runs the fragment shader of the last draw for one fragment
FragmentShader ==
    /\ phase = "Running"
    /\ \E k \in RampFactors : fragment' = <<FragmentRamp(<<k, RampGrid>>)>>
    /\ UNCHANGED <<container, window, host, options, now, this, gpu, ctx2d, timers, phase,
                   handler, calls>>

\* the program on the platforms that render, with well-formed colour stops,
\* and the fragments of its draws
InitShader ==
    /\ container \in {c \in Containers : c.offsetWidth = 800}
    /\ window \in {w \in Windows : w.innerWidth = 1000 /\ w.devicePixelRatio = <<2, 1>>}
    /\ host \in {h \in Hosts : h.supports # {} /\ h.vertexCompiles
                                /\ h.fragmentCompiles /\ h.links}
    /\ options \in {[PageOptions EXCEPT !.colorStops = c] : c \in RampStopInputs}
    /\ now = 0
    /\ Construct

NextShader ==
    \/ InitTimer
    \/ AnimationFrame
    \/ FragmentShader

ShaderSpec == InitShader /\ [][NextShader]_vars

\* timer and frame callbacks that are scheduled do run; the page as
\* loaded, with a layout that stays as it is
FairSpec ==
    /\ Init
    /\ [][NextStatic]_vars
    /\ WF_vars(InitTimer)
    /\ WF_vars(AnimationFrame)
    /\ WF_vars(FallbackFrame)

(***************************************************************************)
(* Properties.                                                             *)
(***************************************************************************)
Ops(cs) == [i \in 1..Len(cs) |-> cs[i].op]
IssuedBy(by) == SelectSeq(calls, LAMBDA c : c.by = by)
Positions(op) == {i \in 1..Len(calls) : calls[i].op = op}
CountOp(op) == Cardinality(Positions(op))

CanvasSize == <<this.canvas.width, this.canvas.height>>
ContextObtained == this.gl \notin {Undefined, Null}
FallbackEntered == phase = "Degraded"
FallbackLoopRunning ==
    ctx2d.ctx = "CanvasRenderingContext2D" /\ timers.fallbackAnimate >= 1

\* C1: every failure of initWebGL (no context, getContext throwing, a stage
\* not compiling, the program not linking) ends in Degraded with the
\* fallback loop running: the handler that fell back has painted the
\* gradient, and a fallback tick is scheduled from then on.
C1_FailureEndsInFallback ==
    FallbackEntered =>
        /\ FallbackLoopRunning
        /\ handler = "initWebGL" => CountOp("ctx.fillRect") = 1

\* C2: on a platform where the context is obtainable, both stages compile
\* and the program links, and with a container whose width and height stay
\* positive, the pipeline eventually reaches Running.
HostCanRender ==
    /\ host.supports # {}
    /\ ~host.getContextThrows
    /\ host.vertexCompiles /\ host.fragmentCompiles /\ host.links
ContainerPositive == container.offsetWidth > 0 /\ container.offsetHeight > 0
C2_ReachesRunning ==
    (HostCanRender /\ []ContainerPositive) => <>(phase = "Running")

\* C3: an initWebGL attempt that obtained a GPU context and finds the canvas
\* width or height 0 schedules exactly one further attempt, creates no
\* program and no buffer, and enters neither Running nor Degraded.
ZeroSurfaceAttempt ==
    /\ handler = "initWebGL"
    /\ ContextObtained
    /\ (this.canvas.width = 0 \/ this.canvas.height = 0)
C3_ZeroSurfaceRetries ==
    ZeroSurfaceAttempt =>
        /\ CountOp("setTimeout:initWebGL") = 1
        /\ timers.initWebGL = 1
        /\ CountOp("gl.createProgram") = 0 /\ CountOp("gl.createBuffer") = 0
        /\ this.program = Undefined /\ gpu.programs = 0 /\ gpu.buffers = 0
        /\ phase \notin {"Running", "Degraded"}
        /\ timers.animate = 0 /\ timers.fallbackAnimate = 0
C3_Witness == ZeroSurfaceAttempt /\ phase = "Initializing"

\* C4: a tick of the running pipeline performs, in this order and once each:
\* the surface measurement, the viewport update, the uniform writes (time,
\* amplitude, resolution, blend, colour stops), one draw of 3 vertices, the
\* scheduling of the next tick.  Nothing is drawn before the uniforms are
\* written and the next tick is scheduled after the draw.
TickRan == phase = "Running" /\ handler \in {"initWebGL", "animate"}
TickSteps ==
    <<"resizeCanvas", "gl.viewport", "gl.uniform1f:uTime", "gl.uniform1f:uAmplitude",
      "gl.uniform2f:uResolution", "gl.uniform1f:uBlend", "gl.uniform3fv:uColorStops",
      "gl.drawArrays", "requestAnimationFrame">>
GPUWrites ==
    {"gl.viewport", "gl.uniform1f:uTime", "gl.uniform1f:uAmplitude",
     "gl.uniform2f:uResolution", "gl.uniform1f:uBlend", "gl.uniform3fv:uColorStops"}
C4_TickOrder ==
    TickRan =>
        /\ Ops(IssuedBy("animate")) = TickSteps
        /\ CountOp("gl.drawArrays") = 1
        /\ CountOp("requestAnimationFrame") = 1
        /\ \A i \in Positions("gl.drawArrays") :
              /\ calls[i].args = <<0, 3>>
              /\ \A j \in 1..Len(calls) : calls[j].op \in GPUWrites => j < i
              /\ \A j \in Positions("requestAnimationFrame") : i < j
        /\ \A w \in GPUWrites : CountOp(w) >= 1
C4_Witness == TickRan /\ handler = "animate" /\ now > this.startTime

\* C5: at most one tick callback (GPU tick or fallback repaint) is pending
\* in every state, and a tick schedules its successor as its last step.
C5_OneTickChain ==
    /\ timers.animate + timers.fallbackAnimate <= 1
    /\ handler \in {"animate", "fallbackAnimate"} =>
          /\ CountOp("requestAnimationFrame") = 1
          /\ calls[Len(calls)].op = "requestAnimationFrame"
C5_Witness ==
    /\ handler = "resize"
    /\ phase = "Running"
    /\ timers.animate = 1

\* C6: once the program and its resolution location exist, after every
\* resizeCanvas run by the resize listener the GPU viewport and the
\* resolution uniform both equal the physical size of the canvas.
PipelineInitialized == this.program # Undefined /\ this.resolutionLocation # Undefined
C6_ResizeKeepsGPUConsistent ==
    (handler = "resize" /\ PipelineInitialized) =>
        /\ gpu.viewport = CanvasSize
        /\ gpu.uResolution = CanvasSize

\* C7: the physical width and height of the canvas are both at least 1
\* after every resizeCanvas (every state: the constructor has run it).
C7_SurfaceAtLeastOne == this.canvas.width >= 1 /\ this.canvas.height >= 1

\* C8: with container size (w,h), window size (vw,vh) and scale factor s,
\* resizeCanvas sets the physical size to (w*s, h*s) when w and h are both
\* positive and to (max(vw,1200)*s, max(500, vh*0.6)*s) otherwise.
\* Equalities of rationals are stated over the common denominator.
\* A step that runs resizeCanvas is a step of InitTimer, AnimationFrame or
\* ResizeNotification: the layout and the clock stay and one of these
\* three handlers is the one that ran.
ResizeStep ==
    /\ UNCHANGED <<container, window, now>>
    /\ handler' \in {"initWebGL", "animate", "resize"}
C8_MeasureIsReferencePolicy ==
    [][ResizeStep =>
        LET w == container.offsetWidth
            h == container.offsetHeight
            n == window.devicePixelRatio[1]
            d == window.devicePixelRatio[2]
        IN  IF w > 0 /\ h > 0
            THEN /\ this'.canvas.width * d = w * n
                 /\ this'.canvas.height * d = h * n
            ELSE /\ this'.canvas.width * d = Max(window.innerWidth, 1200) * n
                 /\ this'.canvas.height * d * 10
                        = Max(500 * 10, window.innerHeight * 6) * n]_vars

\* C8 as amended: a container dimension that is 0 is first replaced by the
\* client size of the container and, if that is 0 too, by the corresponding
\* window dimension; the physical size is the whole part of (w*s, h*s) when
\* the resulting w and h are both positive and the whole part of
\* (max(vw,1200)*s, max(500, vh*0.6)*s) otherwise.
C8_MeasureWithWindowSubstitute ==
    [][ResizeStep =>
        LET w == IF container.offsetWidth # 0 THEN container.offsetWidth
                 ELSE IF container.clientWidth # 0 THEN container.clientWidth
                 ELSE window.innerWidth
            h == IF container.offsetHeight # 0 THEN container.offsetHeight
                 ELSE IF container.clientHeight # 0 THEN container.clientHeight
                 ELSE window.innerHeight
            n == window.devicePixelRatio[1]
            d == window.devicePixelRatio[2]
        IN  IF w > 0 /\ h > 0
            THEN /\ this'.canvas.width = (w * n) \div d
                 /\ this'.canvas.height = (h * n) \div d
            ELSE /\ this'.canvas.width = (Max(window.innerWidth, 1200) * n) \div d
                 /\ this'.canvas.height
                        = (Max(500 * 10, window.innerHeight * 6) * n) \div (d * 10)]_vars
C8_Witness ==
    /\ handler = "resize"
    /\ container.offsetWidth = 0 /\ container.offsetHeight = 0
    /\ window.innerWidth = 1000 /\ window.innerHeight = 800
    /\ window.devicePixelRatio = <<2, 1>>
    /\ CanvasSize = <<2000, 1600>>

\* C9: every fallback repaint uses a gradient that runs from 0 to the
\* current physical width of the canvas, fills the whole current canvas,
\* and has colour stop i at i/(n-1).
FallbackTickRan == CountOp("ctx.fillRect") >= 1
C9_FallbackFillsSurface ==
    FallbackTickRan =>
        /\ \A i \in Positions("ctx.fillStyle=gradient") :
              calls[i].args = <<0, 0, this.canvas.width, 0>>
        /\ \A i \in Positions("ctx.fillRect") :
              calls[i].args = <<0, 0, this.canvas.width, this.canvas.height>>
        /\ \A i \in 1..Len(ctx2d.gradient.stops) :
              ctx2d.gradient.stops[i].offset = <<i - 1, Len(ctx2d.gradient.stops) - 1>>

\* C10: a blend, amplitude or speed the caller supplied inside the
\* documented domain (blend in (0,1], amplitude >= 0, speed >= 0) is
\* stored as supplied; the default is stored only for a field the caller
\* did not supply.
MergedWithDefaults(supplied, stored, default) ==
    IF supplied = <<>> THEN stored = default ELSE stored = supplied[1]
C10_OptionsMergedWithDefaults ==
    /\ MergedWithDefaults(options.blend, this.options.blend, 50)
    /\ MergedWithDefaults(options.amplitude, this.options.amplitude, 100)
    /\ MergedWithDefaults(options.speed, this.options.speed, 50)
    /\ MergedWithDefaults(options.colorStops, this.options.colorStops, DefaultColorStops)

(***************************************************************************)
(* Colour conversion.                                                      *)
(***************************************************************************)
\* the reference conversion: value of a digit, of a digit pair
LowerDigits == <<"0","1","2","3","4","5","6","7","8","9","a","b","c","d","e","f">>
UpperDigits == <<"0","1","2","3","4","5","6","7","8","9","A","B","C","D","E","F">>
IsHexDigitChar(c) == \E i \in 1..16 : c = LowerDigits[i] \/ c = UpperDigits[i]
DigitValue(c) == (CHOOSE i \in 1..16 : c = LowerDigits[i] \/ c = UpperDigits[i]) - 1
PairValue(c1, c2) == 16 * DigitValue(c1) + DigitValue(c2)

Body(s) == IF Len(s) > 0 /\ s[1] = "#" THEN Tail(s) ELSE s
AllHex(b) == \A i \in 1..Len(b) : IsHexDigitChar(b[i])
WellFormed(s) == Len(Body(s)) \in {3, 6} /\ AllHex(Body(s))
ReferenceRgb(s) ==
    LET b == Body(s)
    IN  IF Len(b) = 3
        THEN <<PairValue(b[1], b[1]), PairValue(b[2], b[2]), PairValue(b[3], b[3])>>
        ELSE <<PairValue(b[1], b[2]), PairValue(b[3], b[4]), PairValue(b[5], b[6])>>
\* xyz -> xxyyzz
Duplicated(b) == <<b[1], b[1], b[2], b[2], b[3], b[3]>>
OrdinaryTriple(rgb) == \A k \in 1..3 : rgb[k] >= 0 /\ rgb[k] <= 255

\* the stops have been converted: initWebGL got as far as the first tick
StopsConverted == this.colorStopsArray # <<>>
FirstStop == options.colorStops[1][1]

\* C11: for a colour stop of 3 or 6 hexadecimal digits, with or without a
\* leading '#', the converted triple has every channel equal to (value of
\* its digit pair)/255, inside [0,1], the short form duplicating each digit:
\* xyz converts to what xxyyzz and #xxyyzz convert to.
C11_HexToRgbIsReference ==
    (StopsConverted /\ WellFormed(FirstStop)) =>
        /\ this.colorStopsArray[1] = ReferenceRgb(FirstStop)
        /\ OrdinaryTriple(this.colorStopsArray[1])
        /\ Len(Body(FirstStop)) = 3 =>
              /\ this.colorStopsArray[1] = hexToRgb(Duplicated(Body(FirstStop)))
              /\ this.colorStopsArray[1] = hexToRgb(<<"#">> \o Duplicated(Body(FirstStop)))
C11_Witness ==
    /\ StopsConverted
    /\ handler = "animate"
    /\ FirstStop = <<"#", "b", "0", "F">>
    /\ this.colorStopsArray[1] = <<187, 0, 255>>

\* C12: for a colour stop whose body (after an optional '#') has a length
\* other than 3 and 6 or holds a character that is no hexadecimal digit,
\* the conversion does not produce three ordinary channel values in [0,1].
C12_MalformedIsRejected ==
    (StopsConverted /\ ~WellFormed(FirstStop)) =>
        ~OrdinaryTriple(this.colorStopsArray[1])

(***************************************************************************)
(* Colour ramp.                                                            *)
(***************************************************************************)
FragmentRan == fragment # <<>>
\* a rational equal to an integer, to the mean of two integers
RatIsInt(q, c) == q[1] = c * q[2]
RatIsMean(q, a, b) == 2 * q[1] = (a + b) * q[2]
RampIs(rgb, stop) == \A k \in 1..3 : RatIsInt(rgb[k], stop[k])
RampIsMidpoint(rgb, s0, s1) == \A k \in 1..3 : RatIsMean(rgb[k], s0[k], s1[k])
\* the last i in {0,1} with position[i] <= k/RampGrid, positions 0 and 1/2
LastSegment(k) == IF 2 * k >= RampGrid THEN 1 ELSE 0

\* C13: the ramp of a fragment, in either shader variant, returns exactly
\* stop[0] at factor 0, stop[1] at 1/2, stop[2] at 1 and the midpoint of
\* stop[0] and stop[1] at 1/4; the segment index is the last i in {0,1}
\* whose position is at most the factor, so it is 0 or 1.
C13_RampAnchors ==
    FragmentRan =>
        LET f == fragment[1]
            k == f.factor[1]
            stops == f.uColorStops
        IN  /\ f.factor[2] = RampGrid
            /\ f.index \in {0, 1}
            /\ k >= 0 => f.index = LastSegment(k)
            /\ k = 0 => RampIs(f.rampColor, stops[1])
            /\ 2 * k = RampGrid => RampIs(f.rampColor, stops[2])
            /\ k = RampGrid => RampIs(f.rampColor, stops[3])
            /\ 4 * k = RampGrid => RampIsMidpoint(f.rampColor, stops[1], stops[2])
C13_Witness ==
    /\ FragmentRan
    /\ fragment[1].variant = "300 es"
    /\ 4 * fragment[1].factor[1] = RampGrid
    /\ fragment[1].uColorStops[1] # fragment[1].uColorStops[2]
    /\ RampIsMidpoint(fragment[1].rampColor, fragment[1].uColorStops[1],
                      fragment[1].uColorStops[2])

\* C18: for the factor and the stops of every fragment, the macro of the
\* WebGL2 shader and the function of the WebGL1 shader end with the same
\* index, the same current and next stop, the same lerp factor
\* (x - position[index]) / (position[index+1] - position[index]) and the
\* same colour, and the fragment was shaded with these values.
C18_VariantsAgree ==
    FragmentRan =>
        LET f == fragment[1]
            colors == RampColors(f.uColorStops)
            m == COLOR_RAMP(colors, f.factor)
            g == colorRamp(colors, f.factor)
        IN  /\ m.index = g.index
            /\ m.currentColor = g.currentColor /\ m.nextColor = g.nextColor
            /\ m.lerpFactor = g.lerpFactor
            /\ m.finalColor = g.finalColor
            /\ f.index = m.index /\ f.lerpFactor = g.lerpFactor /\ f.rampColor = m.finalColor
            \* lerp factor = (k/RampGrid - index/2) / (1/2)
            /\ m.lerpFactor[1] * RampGrid
                  = (2 * f.factor[1] - m.index * RampGrid) * m.lerpFactor[2]
C18_Witness ==
    /\ FragmentRan
    /\ fragment[1].variant = "100"
    /\ fragment[1].factor[1] = RampGrid
    /\ fragment[1].index = 1
    /\ COLOR_RAMP(RampColors(fragment[1].uColorStops), fragment[1].factor).index = 1

(***************************************************************************)
(* Ticks and resize notifications.                                         *)
(***************************************************************************)
\* the arguments of the last call of op issued before position i
LastBefore(op, i) ==
    LET ps == {j \in Positions(op) : j < i}
    IN  calls[CHOOSE j \in ps : \A l \in ps : l <= j].args

\* C14: at the draw call of every tick of the running pipeline, whatever
\* layout changes and resize notifications came before the tick, the GPU
\* viewport and the resolution uniform equal the physical canvas size, and
\* that size is the one this tick measured from the container.
\* A step that runs a tick: the layout and the clock stay, the handler that
\* ran is the frame callback or the initWebGL that started the loop.
TickStep ==
    /\ UNCHANGED <<container, window, now>>
    /\ handler' \in {"initWebGL", "animate"}
    /\ phase' = "Running"
DrawUsedCanvasSize ==
    /\ gpu.viewport = CanvasSize
    /\ gpu.uResolution = CanvasSize
    /\ \A i \in Positions("gl.drawArrays") :
          /\ LastBefore("gl.viewport", i) = <<0, 0>> \o CanvasSize
          /\ LastBefore("gl.uniform2f:uResolution", i) = CanvasSize
C14_DrawUsesMeasuredSize ==
    [][TickStep =>
        /\ CanvasSize' = <<MeasuredWidth, MeasuredHeight>>
        /\ DrawUsedCanvasSize']_vars
C14_Witness ==
    /\ TickRan
    /\ handler = "animate"
    /\ ContainerWidth = 0
    /\ CanvasSize = <<2400, 1000>>
    /\ gpu.viewport = <<2400, 1000>>

\* C15: Running and Degraded exclude each other and neither is left: in
\* Running the GPU tick is the one pending callback and the fallback loop was
\* never started, in Degraded the fallback repaint is the one pending
\* callback and no GPU tick is pending (a scheduled callback does run, so
\* ticks go on for ever); Running is never followed by another state, and
\* Degraded is never followed by another state or by a draw call.
GPULoopStarted == timers.animate >= 1
FallbackLoopStarted == ctx2d.ctx = "CanvasRenderingContext2D"
C15_ExclusiveAndNeverTerminal ==
    /\ [](phase = "Running" =>
            /\ timers.animate = 1 /\ timers.fallbackAnimate = 0
            /\ ~FallbackLoopStarted)
    /\ [](phase = "Degraded" =>
            /\ timers.fallbackAnimate = 1 /\ timers.animate = 0
            /\ CountOp("gl.drawArrays") = 0)
    /\ [][phase = "Running" => phase' = "Running"]_vars
    /\ [][phase = "Degraded" => phase' = "Degraded"]_vars

\* C16: the program and the vertex buffer are created at most once and
\* never before the delayed initWebGL callback has run; startTime is
\* assigned once, to the current time, in the step that enters Running, and
\* no later tick, resize notification or other step changes it.
C16_InitializedOnce ==
    /\ [](/\ gpu.programs <= 1 /\ gpu.buffers <= 1
          /\ phase = "Uninitialized" =>
                /\ gpu.programs = 0 /\ gpu.buffers = 0
                /\ this.program = Undefined /\ this.startTime = NoTime
          /\ phase = "Running" <=> this.startTime # NoTime
          /\ handler = "initWebGL" =>
                /\ CountOp("gl.createProgram") <= 1
                /\ CountOp("gl.createBuffer") <= 1)
    /\ [][/\ (gpu.programs' = gpu.programs \/ gpu.programs = 0)
          /\ (gpu.buffers' = gpu.buffers \/ gpu.buffers = 0)
          /\ (phase # "Running" /\ phase' = "Running") =>
                (this.startTime = NoTime /\ this.startTime' = now)
          /\ this.startTime' # this.startTime =>
                (phase # "Running" /\ phase' = "Running")]_vars
C16_Witness ==
    /\ phase = "Running"
    /\ handler = "animate"
    /\ now = 1 /\ this.startTime = 0
    /\ gpu.programs = 1 /\ gpu.buffers = 1

\* C17: a step of the resize listener, in any pipeline state, changes at
\* most the physical and the display size of the canvas, the GPU viewport
\* and the resolution uniform: the pipeline state, the options, the colour
\* table, startTime, the context, program and locations, the pending
\* callbacks and the fallback closure stay as they are, and the listener
\* issues no draw call.
ResizeListenerStep ==
    /\ UNCHANGED <<container, window, now>>
    /\ handler' = "resize"
C17_ResizeWritesSurfaceOnly ==
    [][ResizeListenerStep =>
        /\ phase' = phase
        /\ timers' = timers
        /\ ctx2d' = ctx2d
        /\ this' = [this EXCEPT !.canvas = this'.canvas]
        /\ gpu' = [gpu EXCEPT !.viewport = gpu'.viewport, !.uResolution = gpu'.uResolution]
        /\ \A i \in 1..Len(calls') :
              calls'[i].op \notin {"gl.drawArrays", "ctx.fillRect", "requestAnimationFrame",
                                  "setTimeout:initWebGL"}]_vars
C17_Witness ==
    /\ handler = "resize"
    /\ phase = "Degraded"
    /\ timers.fallbackAnimate = 1
    /\ CanvasSize = <<1600, 1200>>
    /\ ctx2d.gradient.x1 # 1600

\* C19: while the pipeline is Running no shader stage handle created by
\* compileShader is still allocated: the vertex and the fragment stage
\* have both been released after the program was linked.
C19_StagesReleasedAfterLink ==
    phase = "Running" =>
        /\ gpu.linked
        /\ gpu.shaders = {}

====
